---- MODULE Spec2Model ----
(***************************************************************************)
(* Session / token lifecycle of the SehatGuru backend:                     *)
(*   app/utils/jwt.py            token codec (issue / verify)              *)
(*   app/models/token_blacklist  process-wide revocation set               *)
(*   app/middleware/auth.py      per-request session check                 *)
(*   app/services/auth_service   register / login / google / reset / ...   *)
(*   app/routes/auth.py          the HTTP handlers that wire them          *)
(*                                                                         *)
(* Time is counted in ticks, TicksPerSecond of them to a second:           *)
(* datetime.utcnow() is finer than the whole seconds a JWT carries.        *)
(***************************************************************************)
EXTENDS Integers, Sequences, FiniteSets, TLC

\* ---------------------------------------------------------------- bounds
TicksPerSecond == 2
\* token lifetimes in seconds, scaled down from the configured
\* 30 minutes / 7 days / 1 hour
AccessTtl == 1
RefreshTtl == 3
ResetTtl == 2
\* tokens the clients hold at once, and tokens ever logged out
MaxHeld == 2
MaxRevoked == 1
\* identities the upstream identity store hands out
MaxUids == 2
\* requests handled at the same time
MaxRequests == 3

\* ------------------------------------------------------------ value sets
\* the addresses requests carry, and those that ever own an account
Emails == {"a@x", "b@x"}
Registrable == {"a@x"}
Passwords == {"pw1", "pw2"}
UidSeq == <<"uid1", "uid2", "uid3", "uid4">>
Uids == {UidSeq[i] : i \in 1..MaxUids}
Kinds == {"access", "refresh", "password_reset"}

\* Python's None, for a string-valued and for a time-valued field
None == "None"
NoTime == 0 - 1
\* the first instant of the model: one second after the Unix epoch, so that
\* every iat is positive (truthy), as every real utcnow() is
Epoch == TicksPerSecond
\* the clock stops advancing at MaxTime (ticks): an access token issued at
\* Epoch has expired by then; the codec on its own is followed until
\* CodecMaxTime, when a refresh token has
MaxTime == Epoch + (AccessTtl + 1) * TicksPerSecond
CodecMaxTime == Epoch + (RefreshTtl + 1) * TicksPerSecond

\* ------------------------------------------------------------- variables
VARIABLES
    now,        \* datetime.utcnow(), in ticks
    users,      \* the Firestore users collection: document id -> document
    fb,         \* the Firebase Auth identities: uid -> identity
    nextUid,    \* index into UidSeq of the next uid Firebase Auth hands out
    blacklist,  \* TokenBlacklist._blacklist
    held,       \* the token strings clients hold and may present
    lastSet,    \* history: per account, the password last set, when, by what
    loggedOut,  \* history: the token strings POST /logout was called with
    resp,       \* what the last direct call of the codec returned
    inflight    \* the requests being handled concurrently, each one's position

vars == <<now, users, fb, nextUid, blacklist, held, lastSet, loggedOut, resp, inflight>>

\* ------------------------------------------------------------ TokenCodec
\* timegm(dt.utctimetuple()): jose stores exp and iat as whole seconds
Sec(t) == t \div TicksPerSecond

\* datetime.utcfromtimestamp(seconds), back in ticks
FromTimestamp(s) == s * TicksPerSecond

\* jwt.encode(to_encode, JWT_SECRET_KEY, HS256): the token string is a
\* function of its claims; datetime claims are converted to whole seconds
jwt_encode(claims) ==
    [sub |-> claims.sub, email |-> claims.email, token_type |-> claims.token_type,
     iat |-> Sec(claims.iat), exp |-> Sec(claims.exp), signed |-> TRUE]

\* create_access_token(data): data = {"sub": ..., "email": ...}
create_access_token(data, t) ==
    jwt_encode([sub |-> data.sub, email |-> data.email, token_type |-> "access",
                iat |-> t, exp |-> t + AccessTtl * TicksPerSecond])

\* a refresh token that is tagged as an access token
create_refresh_token_tagged_access(data, t) ==
    jwt_encode([sub |-> data.sub, email |-> data.email, token_type |-> "access",
                iat |-> t, exp |-> t + RefreshTtl * TicksPerSecond])

create_refresh_token(data, t) ==
    jwt_encode([sub |-> data.sub, email |-> data.email, token_type |-> "refresh",
                iat |-> t, exp |-> t + RefreshTtl * TicksPerSecond])

\* create_password_reset_token(email): the subject is the email, no email claim
create_password_reset_token(email, t) ==
    jwt_encode([sub |-> email, email |-> None, token_type |-> "password_reset",
                iat |-> t, exp |-> t + ResetTtl * TicksPerSecond])

\* a decode that already rejects a token in the second its exp names
jwt_decode_expired_at_exp(token, t) ==
    IF ~token.signed THEN [ok |-> FALSE, err |-> "BadSignature"]
    ELSE IF token.exp <= Sec(t) THEN [ok |-> FALSE, err |-> "Expired"]
    ELSE [ok |-> TRUE, err |-> "", payload |-> token]

\* a decode that looks at exp before it checks the signature
jwt_decode_expiry_first(token, t) ==
    IF token.exp < Sec(t) THEN [ok |-> FALSE, err |-> "Expired"]
    ELSE IF ~token.signed THEN [ok |-> FALSE, err |-> "BadSignature"]
    ELSE [ok |-> TRUE, err |-> "", payload |-> token]

\* jwt.decode(token, JWT_SECRET_KEY, algorithms=[HS256]): the signature is
\* checked first, then exp against the current whole second
jwt_decode(token, t) ==
    IF ~token.signed THEN [ok |-> FALSE, err |-> "BadSignature"]
    ELSE IF token.exp < Sec(t) THEN [ok |-> FALSE, err |-> "Expired"]
    ELSE [ok |-> TRUE, err |-> "", payload |-> token]

\* TokenData(uid=..., email=..., token_type=...)
TokenData(uid, email, token_type) ==
    [uid |-> uid, email |-> email, token_type |-> token_type]

\* a verify_token that does not compare the embedded token_type
verify_token_no_type_check(token, token_type, t) ==
    LET d == jwt_decode(token, t) IN
    IF ~d.ok THEN [ok |-> FALSE, err |-> d.err]
    ELSE IF d.payload.sub = None THEN [ok |-> FALSE, err |-> "MalformedClaims"]
    ELSE [ok |-> TRUE, err |-> "",
          data |-> TokenData(d.payload.sub, d.payload.email, d.payload.token_type)]

\* verify_token(token, token_type)
verify_token(token, token_type, t) ==
    LET d == jwt_decode(token, t) IN
    IF ~d.ok THEN [ok |-> FALSE, err |-> d.err]
    ELSE IF d.payload.sub = None THEN [ok |-> FALSE, err |-> "MalformedClaims"]
    ELSE IF d.payload.token_type # token_type THEN [ok |-> FALSE, err |-> "WrongType"]
    ELSE [ok |-> TRUE, err |-> "",
          data |-> TokenData(d.payload.sub, d.payload.email, d.payload.token_type)]

\* a verify_password_reset_token that compares the type before the subject
verify_password_reset_token_type_first(token, t) ==
    LET d == jwt_decode(token, t) IN
    IF ~d.ok THEN [ok |-> FALSE, err |-> d.err]
    ELSE IF d.payload.token_type # "password_reset" THEN [ok |-> FALSE, err |-> "WrongType"]
    ELSE IF d.payload.sub = None THEN [ok |-> FALSE, err |-> "MalformedClaims"]
    ELSE [ok |-> TRUE, err |-> "", email |-> d.payload.sub]

\* verify_password_reset_token(token): returns the email
verify_password_reset_token(token, t) ==
    LET d == jwt_decode(token, t) IN
    IF ~d.ok THEN [ok |-> FALSE, err |-> d.err]
    ELSE IF d.payload.sub = None THEN [ok |-> FALSE, err |-> "MalformedClaims"]
    ELSE IF d.payload.token_type # "password_reset" THEN [ok |-> FALSE, err |-> "WrongType"]
    ELSE [ok |-> TRUE, err |-> "", email |-> d.payload.sub]

\* the verifier that expects `kind`, as one result shape: the subject and the
\* email it returns, or the failure
Verify(token, kind, t) ==
    IF kind = "password_reset"
    THEN LET r == verify_password_reset_token(token, t) IN
         [ok |-> r.ok, err |-> r.err,
          sub |-> IF r.ok THEN r.email ELSE None, email |-> None]
    ELSE LET r == verify_token(token, kind, t) IN
         [ok |-> r.ok, err |-> r.err,
          sub |-> IF r.ok THEN r.data.uid ELSE None,
          email |-> IF r.ok THEN r.data.email ELSE None]

\* the creator of `kind`
Issue(kind, sub, email, t) ==
    CASE kind = "access" -> create_access_token([sub |-> sub, email |-> email], t)
      [] kind = "refresh" -> create_refresh_token([sub |-> sub, email |-> email], t)
      [] OTHER -> create_password_reset_token(sub, t)

\* ------------------------------------------------------- RevocationStore
\* an add_token that takes out a token it finds in the set
add_token_toggle(bl, token) ==
    IF token \in bl THEN bl \ {token} ELSE bl \cup {token}

\* an add_token that forgets to insert
add_token_noop(bl, token) == bl

\* TokenBlacklist.add_token(token)
add_token(bl, token) == bl \cup {token}

\* an is_blacklisted that finds nothing
is_blacklisted_never(bl, token) == FALSE

\* TokenBlacklist.is_blacklisted(token)
is_blacklisted(bl, token) == token \in bl

\* ------------------------------------------------- external collaborators
\* app/utils/password.py: hash_password / verify_password
NoHash == <<"none", "">>
hash_password(p) == <<"bcrypt", p>>
verify_password(p, h) == h = hash_password(p)

EmptyStore == [u \in {} |-> 0]

\* users_ref.where("email", "==", email).limit(1).get()
DocsByEmail(store, email) == {u \in DOMAIN store : store[u].email = email}

\* users_ref.document(uid).set(doc) / .update(fields) / .delete()
DocSet(store, uid, doc) ==
    [u \in DOMAIN store \cup {uid} |-> IF u = uid THEN doc ELSE store[u]]
DocDelete(store, uid) == [u \in DOMAIN store \ {uid} |-> store[u]]

\* hasattr(obj, name): reading a field a pydantic model does not declare
\* raises AttributeError
HasAttr(obj, name) == name \in DOMAIN obj

\* ---------------------------------------------------------- SessionGuard
NoData == [uid |-> None, email |-> None, token_type |-> None]
NoUser == [uid |-> None]

\* a get_current_user that verifies the token before it looks it up in the
\* blacklist
get_current_user_verifies_first(token) ==
    LET v == verify_token(token, "access", now) IN
    IF ~v.ok
    THEN [status |-> 401, kind |-> "InvalidToken", err |-> v.err, data |-> NoData]
    ELSE IF is_blacklisted(blacklist, token)
    THEN [status |-> 401, kind |-> "Revoked", err |-> "", data |-> NoData]
    ELSE [status |-> 200, kind |-> "ok", err |-> "", data |-> v.data]

\* get_current_user(credentials): revocation check, then verify_token
get_current_user(token) ==
    IF is_blacklisted(blacklist, token)
    THEN [status |-> 401, kind |-> "Revoked", err |-> "", data |-> NoData]
    ELSE LET v == verify_token(token, "access", now) IN
         IF ~v.ok
         THEN [status |-> 401, kind |-> "InvalidToken", err |-> v.err, data |-> NoData]
         ELSE IF v.data.uid = None
         THEN [status |-> 401, kind |-> "InvalidToken", err |-> "", data |-> NoData]
         ELSE [status |-> 200, kind |-> "ok", err |-> "", data |-> v.data]

\* the best-effort sync of email_verified from Firebase Auth into the document
SyncedDoc(uid, doc) ==
    IF uid \in DOMAIN fb /\ doc.email_verified # fb[uid].email_verified
    THEN [doc EXCEPT !.email_verified = fb[uid].email_verified]
    ELSE doc

\* a sync that writes the document with set() where the code calls update():
\* the fields it does not name are lost
sync_email_verified_replaces_doc(uid, doc, fault) ==
    IF fault = "lookup" \/ uid \notin DOMAIN fb
    THEN [doc |-> doc, users |-> users]
    ELSE IF SyncedDoc(uid, doc) = doc
    THEN [doc |-> doc, users |-> users]
    ELSE IF fault = "update"
    THEN [doc |-> doc, users |-> users]
    ELSE [doc |-> SyncedDoc(uid, doc),
          users |-> DocSet(users, uid,
                           [SyncedDoc(uid, doc) EXCEPT !.hashed_password = NoHash,
                                                       !.password_changed_at = NoTime])]

\* the inner try of get_current_active_user: firebase_client.get_user, then
\* user_ref.update when the values differ; fault names the call that raises
\* ("lookup", "update"). Whatever raises is logged and swallowed, and
\* user_data is returned as it then is
sync_email_verified(uid, doc, fault) ==
    IF fault = "lookup" \/ uid \notin DOMAIN fb
    THEN [doc |-> doc, users |-> users]
    ELSE IF SyncedDoc(uid, doc) = doc
    THEN [doc |-> doc, users |-> users]
    ELSE IF fault = "update"
    THEN [doc |-> doc, users |-> users]
    ELSE [doc |-> SyncedDoc(uid, doc),
          users |-> DocSet(users, uid, SyncedDoc(uid, doc))]

\* a get_current_active_user that does not look whether the document exists
get_current_active_user_no_exists_check(current_user, fault) ==
    IF current_user.uid \notin DOMAIN users
    THEN [status |-> 200, kind |-> "Accepted", users |-> users,
          user |-> [uid |-> current_user.uid]]
    ELSE [status |-> 500, kind |-> "Error", users |-> users, user |-> NoUser]

\* get_current_active_user(current_user): the document, the
\* password-invalidation check, the sync
get_current_active_user(current_user, fault) ==
    LET uid == current_user.uid IN
    IF uid \notin DOMAIN users
    THEN [status |-> 404, kind |-> "UserNotFound", users |-> users, user |-> NoUser]
    ELSE IF ~HasAttr(current_user, "iat")
    THEN \* AttributeError, caught by `except Exception`
         [status |-> 500, kind |-> "Error", users |-> users, user |-> NoUser]
    ELSE IF /\ current_user.iat # 0
            /\ users[uid].password_changed_at # NoTime
            /\ users[uid].password_changed_at > FromTimestamp(current_user.iat)
    THEN [status |-> 401, kind |-> "SessionInvalidated", users |-> users, user |-> NoUser]
    ELSE LET s == sync_email_verified(uid, users[uid], fault) IN
         [status |-> 200, kind |-> "Accepted", users |-> s.users,
          user |-> [uid |-> uid, doc |-> s.doc]]

\* GET /me: Depends(get_current_active_user), which Depends(get_current_user);
\* users and blacklist: the two stores after the request (neither dependency
\* calls TokenBlacklist.add_token)
get_current_user_info(token, fault) ==
    LET cu == get_current_user(token) IN
    IF cu.status # 200
    THEN [status |-> cu.status, kind |-> cu.kind, err |-> cu.err,
          users |-> users, blacklist |-> blacklist, user |-> NoUser]
    ELSE LET r == get_current_active_user(cu.data, fault) IN
         [status |-> r.status, kind |-> r.kind, err |-> "",
          users |-> r.users, blacklist |-> blacklist, user |-> r.user]

\* a verify_refresh_token that looks the token up in the blacklist first
verify_refresh_token_checks_blacklist(token) ==
    LET v == verify_token(token, "refresh", now) IN
    IF is_blacklisted(blacklist, token)
    THEN [status |-> 401, kind |-> "Revoked", err |-> "", data |-> NoData]
    ELSE IF ~v.ok
    THEN [status |-> 401, kind |-> "InvalidToken", err |-> v.err, data |-> NoData]
    ELSE [status |-> 200, kind |-> "ok", err |-> "", data |-> v.data]

\* verify_refresh_token(credentials): verify_token only
verify_refresh_token(token) ==
    LET v == verify_token(token, "refresh", now) IN
    IF ~v.ok
    THEN [status |-> 401, kind |-> "InvalidToken", err |-> v.err, data |-> NoData]
    ELSE IF v.data.uid = None
    THEN [status |-> 401, kind |-> "InvalidToken", err |-> "", data |-> NoData]
    ELSE [status |-> 200, kind |-> "ok", err |-> "", data |-> v.data]

\* ----------------------------------------------------------- AuthService
\* the access and refresh token every login path issues
TokenPair(uid, email) ==
    {create_access_token([sub |-> uid, email |-> email], now),
     create_refresh_token([sub |-> uid, email |-> email], now)}

\* AuthService.register_user(user_data); fault "store": the document write
\* raises after Firebase Auth created the identity
register_user(email, password, fault) ==
    IF DocsByEmail(users, email) # {}
    THEN [status |-> 400, kind |-> "EmailRegistered", users |-> users, fb |-> fb,
          nextUid |-> nextUid]
    ELSE IF DocsByEmail(fb, email) # {}
    THEN \* firebase_client.create_user raises: the email exists upstream
         [status |-> 500, kind |-> "RegistrationFailed", users |-> users, fb |-> fb,
          nextUid |-> nextUid]
    ELSE LET uid == UidSeq[nextUid]
             fb2 == DocSet(fb, uid, [email |-> email, password |-> password,
                                     email_verified |-> FALSE]) IN
         IF fault = "store"
         THEN [status |-> 500, kind |-> "RegistrationFailed", users |-> users,
               fb |-> fb2, nextUid |-> nextUid + 1]
         ELSE
         [status |-> 201, kind |-> "Registered",
          fb |-> fb2,
          users |-> DocSet(users, uid,
                           [email |-> email, email_verified |-> FALSE,
                            auth_provider |-> "email",
                            hashed_password |-> hash_password(password),
                            password_changed_at |-> now]),
          nextUid |-> nextUid + 1]

\* a login_user that skips the comparison of the password with the hash
login_user_any_password(email, password) ==
    LET docs == DocsByEmail(users, email) IN
    IF docs = {}
    THEN [status |-> 401, kind |-> "InvalidCredentials", tokens |-> {},
          updated |-> {}]
    ELSE LET uid == CHOOSE u \in docs : TRUE
             stored == users[uid].hashed_password IN
         IF stored = NoHash
         THEN IF users[uid].auth_provider = "google"
              THEN [status |-> 400, kind |-> "ProviderMismatch", tokens |-> {},
                    updated |-> {}]
              ELSE [status |-> 401, kind |-> "InvalidCredentials", tokens |-> {},
                    updated |-> {}]
         ELSE [status |-> 200, kind |-> "ok", tokens |-> TokenPair(uid, email),
               updated |-> {uid}]

\* AuthService.login_user(login_data). updated: the documents whose
\* last_login and updated_at it wrote (the two timestamps are read by no
\* handler and are not kept in the document records)
login_user(email, password) ==
    LET docs == DocsByEmail(users, email) IN
    IF docs = {}
    THEN [status |-> 401, kind |-> "InvalidCredentials", tokens |-> {},
          updated |-> {}]
    ELSE LET uid == CHOOSE u \in docs : TRUE
             stored == users[uid].hashed_password IN
         IF stored = NoHash
         THEN IF users[uid].auth_provider = "google"
              THEN [status |-> 400, kind |-> "ProviderMismatch", tokens |-> {},
                    updated |-> {}]
              ELSE [status |-> 401, kind |-> "InvalidCredentials", tokens |-> {},
                    updated |-> {}]
         ELSE IF ~verify_password(password, stored)
         THEN [status |-> 401, kind |-> "InvalidCredentials", tokens |-> {},
               updated |-> {}]
         ELSE [status |-> 200, kind |-> "ok", tokens |-> TokenPair(uid, email),
               updated |-> {uid}]

\* a Google user document that carries a password hash
google_user_doc_data_with_hash(email) ==
    [email |-> email, email_verified |-> TRUE, auth_provider |-> "google",
     hashed_password |-> hash_password("pw1"), password_changed_at |-> NoTime]

\* user_doc_data of google_auth: neither hashed_password nor
\* password_changed_at
google_user_doc_data(email) ==
    [email |-> email, email_verified |-> TRUE, auth_provider |-> "google",
     hashed_password |-> NoHash, password_changed_at |-> NoTime]

\* an identity step that does not fall back to the lookup by email
google_upstream_identity_no_lookup(email, fault) ==
    IF DocsByEmail(fb, email) = {} /\ fault # "create"
    THEN [ok |-> TRUE, created |-> TRUE, uid |-> UidSeq[nextUid]]
    ELSE [ok |-> FALSE, created |-> FALSE, uid |-> None]

\* an identity step that goes on with a fresh uid when nothing was created
google_upstream_identity_ignores_failure(email, fault) ==
    LET up == DocsByEmail(fb, email) IN
    IF up = {}
    THEN [ok |-> TRUE, created |-> fault # "create", uid |-> UidSeq[nextUid]]
    ELSE [ok |-> TRUE, created |-> FALSE, uid |-> CHOOSE u \in up : TRUE]

\* google_auth, no document found: firebase_client.create_user, and when it
\* raises, get_user_by_email; when that raises too, the first error is
\* raised again. fault names the call that raises for a reason of its own
\* ("create", "lookup"); create_user also raises when the email has an
\* identity already
google_upstream_identity(email, fault) ==
    LET up == DocsByEmail(fb, email) IN
    IF up = {}
    THEN IF fault = "create"
         THEN [ok |-> FALSE, created |-> FALSE, uid |-> None]
         ELSE [ok |-> TRUE, created |-> TRUE, uid |-> UidSeq[nextUid]]
    ELSE IF fault = "lookup"
         THEN [ok |-> FALSE, created |-> FALSE, uid |-> None]
         ELSE [ok |-> TRUE, created |-> FALSE, uid |-> CHOOSE u \in up : TRUE]

\* a google_auth that never looks for an existing document
google_auth_always_creates(email, fault) ==
    LET uid == UidSeq[nextUid] IN
    [status |-> 200, kind |-> "ok",
     fb |-> DocSet(fb, uid, [email |-> email, password |-> None,
                             email_verified |-> TRUE]),
     users |-> DocSet(users, uid, google_user_doc_data(email)),
     nextUid |-> nextUid + 1,
     tokens |-> TokenPair(uid, email)]

\* AuthService.google_auth(id_token_str), for a verified assertion of `email`;
\* fault "store": the document write raises. Every exception that is not an
\* HTTPException is answered 401 "Google authentication failed"
google_auth(email, fault) ==
    LET docs == DocsByEmail(users, email) IN
    IF docs # {}
    THEN LET uid == CHOOSE u \in docs : TRUE IN
         IF fault = "store"
         THEN [status |-> 401, kind |-> "GoogleAuthFailed", users |-> users, fb |-> fb,
               nextUid |-> nextUid, tokens |-> {}]
         ELSE [status |-> 200, kind |-> "ok", users |-> users, fb |-> fb,
               nextUid |-> nextUid, tokens |-> TokenPair(uid, email)]
    ELSE LET id == google_upstream_identity(email, fault) IN
         IF ~id.ok
         THEN [status |-> 401, kind |-> "IdentityCreationFailed", users |-> users,
               fb |-> fb, nextUid |-> nextUid, tokens |-> {}]
         ELSE LET fb2 == IF id.created
                         THEN DocSet(fb, id.uid, [email |-> email, password |-> None,
                                                  email_verified |-> TRUE])
                         ELSE fb
                  next2 == IF id.created THEN nextUid + 1 ELSE nextUid IN
              IF fault = "store"
              THEN [status |-> 401, kind |-> "GoogleAuthFailed", users |-> users,
                    fb |-> fb2, nextUid |-> next2, tokens |-> {}]
              ELSE [status |-> 200, kind |-> "ok", fb |-> fb2,
                    users |-> DocSet(users, id.uid, google_user_doc_data(email)),
                    nextUid |-> next2,
                    tokens |-> TokenPair(id.uid, email)]

\* POST /refresh: Depends(verify_refresh_token), then
\* AuthService.refresh_access_token(uid, email)
refresh_token(token) ==
    LET v == verify_refresh_token(token) IN
    IF v.status # 200
    THEN [status |-> v.status, kind |-> v.kind, err |-> v.err, tokens |-> {}]
    ELSE [status |-> 200, kind |-> "ok", err |-> "",
          tokens |-> TokenPair(v.data.uid, v.data.email)]

\* a request_password_reset that reports an unknown email
request_password_reset_reveals(email, mailOk, lookupOk) ==
    IF DocsByEmail(users, email) = {}
    THEN [ret |-> FALSE, sent |-> {}, users |-> users, fb |-> fb]
    ELSE [ret |-> TRUE,
          sent |-> IF mailOk THEN {create_password_reset_token(email, now)} ELSE {},
          users |-> users, fb |-> fb]

\* a request_password_reset that lets a failure of the lookup out
request_password_reset_raises(email, mailOk, lookupOk) ==
    IF ~lookupOk
    THEN [ret |-> FALSE, sent |-> {}, users |-> users, fb |-> fb]
    ELSE IF DocsByEmail(users, email) = {}
    THEN [ret |-> TRUE, sent |-> {}, users |-> users, fb |-> fb]
    ELSE [ret |-> TRUE,
          sent |-> IF mailOk THEN {create_password_reset_token(email, now)} ELSE {},
          users |-> users, fb |-> fb]

\* AuthService.request_password_reset(email): what it returns, the reset
\* tokens the mail transport delivered, and the stores after the call (it
\* writes neither). ~lookupOk: the query of the users collection raises;
\* ~mailOk: the mail is not delivered (send_email returns False, or raises).
\* Every exception is caught and True returned
request_password_reset(email, mailOk, lookupOk) ==
    IF ~lookupOk
    THEN [ret |-> TRUE, sent |-> {}, users |-> users, fb |-> fb]
    ELSE IF DocsByEmail(users, email) = {}
    THEN [ret |-> TRUE, sent |-> {}, users |-> users, fb |-> fb]
    ELSE [ret |-> TRUE,
          sent |-> IF mailOk THEN {create_password_reset_token(email, now)} ELSE {},
          users |-> users, fb |-> fb]

\* POST /forgot-password
forgot_password(email, mailOk, lookupOk) ==
    LET r == request_password_reset(email, mailOk, lookupOk) IN
    [status |-> 200, kind |-> "IfExistsSent", success |-> TRUE, ret |-> r.ret,
     sent |-> r.sent, users |-> r.users, fb |-> r.fb]

\* a provider check that lets every account through
uses_google_sign_in_never(user_data) == FALSE

\* user_data.get("auth_provider") == "google" of reset_password
uses_google_sign_in(user_data) == user_data.auth_provider = "google"

\* a document update that leaves password_changed_at as it was
ResetUpdate_keeps_changed_at(store, uid, new_password, t) ==
    [store EXCEPT ![uid].hashed_password = hash_password(new_password)]

\* a document update that leaves the stored hash as it was
ResetUpdate_keeps_hash(store, uid, new_password, t) ==
    [store EXCEPT ![uid].password_changed_at = t]

\* users_ref.document(uid).update({hashed_password, password_changed_at,
\* updated_at}) of reset_password
ResetUpdate(store, uid, new_password, t) ==
    [store EXCEPT ![uid].hashed_password = hash_password(new_password),
                  ![uid].password_changed_at = t]

\* AuthService.reset_password(token, new_password); fault names the external
\* call that raises: "auth" (update_user), "store" (the document update)
reset_password(token, new_password, fault) ==
    LET v == verify_password_reset_token(token, now) IN
    IF ~v.ok
    THEN [status |-> 400, kind |-> "InvalidToken", err |-> v.err,
          users |-> users, fb |-> fb, uid |-> None]
    ELSE LET docs == DocsByEmail(users, v.email) IN
         IF docs = {}
         THEN [status |-> 404, kind |-> "UserNotFound", err |-> "",
               users |-> users, fb |-> fb, uid |-> None]
         ELSE LET uid == CHOOSE u \in docs : TRUE IN
              IF uses_google_sign_in(users[uid])
              THEN [status |-> 400, kind |-> "ProviderMismatch", err |-> "",
                    users |-> users, fb |-> fb, uid |-> uid]
              ELSE IF fault = "auth" \/ uid \notin DOMAIN fb
              THEN [status |-> 400, kind |-> "ResetFailed", err |-> "",
                    users |-> users, fb |-> fb, uid |-> uid]
              ELSE LET fb2 == [fb EXCEPT ![uid].password = new_password] IN
                   IF fault = "store"
                   THEN [status |-> 400, kind |-> "ResetFailed", err |-> "",
                         users |-> users, fb |-> fb2, uid |-> uid]
                   ELSE [status |-> 200, kind |-> "ok", err |-> "",
                         users |-> ResetUpdate(users, uid, new_password, now),
                         fb |-> fb2, uid |-> uid]

\* AuthService.delete_user_account(uid); fault "store": the document delete
\* raises after Firebase Auth deleted the identity
delete_user_account(uid, fault) ==
    IF uid \notin DOMAIN fb
    THEN [status |-> 500, kind |-> "DeletionFailed", users |-> users, fb |-> fb]
    ELSE IF fault = "store"
    THEN [status |-> 500, kind |-> "DeletionFailed", users |-> users,
          fb |-> DocDelete(fb, uid)]
    ELSE [status |-> 200, kind |-> "ok", users |-> DocDelete(users, uid),
          fb |-> DocDelete(fb, uid)]

\* DELETE /delete-account: Depends(get_current_user)
delete_account(token, fault) ==
    LET cu == get_current_user(token) IN
    IF cu.status # 200
    THEN [status |-> cu.status, kind |-> cu.kind, users |-> users, fb |-> fb]
    ELSE delete_user_account(cu.data.uid, fault)

\* ---------------------------------------------------------------- Init
NoResp == [op |-> "none", status |-> 0, kind |-> ""]

Init ==
    /\ now = Epoch
    /\ users = EmptyStore
    /\ fb = EmptyStore
    /\ nextUid = 1
    /\ blacklist = {}
    /\ held = {}
    /\ lastSet = EmptyStore
    /\ loggedOut = {}
    /\ resp = NoResp
    /\ inflight = <<>>

\* time passes between two requests
Tick ==
    /\ now < MaxTime
    /\ now' = now + 1
    /\ UNCHANGED <<users, fb, nextUid, blacklist, held, lastSet, loggedOut, resp, inflight>>

\* the clients keep any of the tokens a handler returned, MaxHeld in all
Keep(issued) ==
    {held \cup K : K \in {S \in SUBSET issued : Cardinality(held \cup S) <= MaxHeld}}

\* a client discards a token it holds
Forget ==
    \E tok \in held :
        /\ held' = held \ {tok}
        /\ UNCHANGED <<now, users, fb, nextUid, blacklist, lastSet, loggedOut, resp, inflight>>

\* ------------------------------------------------------------- handlers
Register ==
    \E email \in Registrable, password \in Passwords, fault \in {"none", "store"} :
        LET r == register_user(email, password, fault) IN
        /\ r.nextUid <= MaxUids + 1
        /\ users' = r.users
        /\ fb' = r.fb
        /\ nextUid' = r.nextUid
        /\ lastSet' = IF r.status = 201
                      THEN DocSet(lastSet, UidSeq[nextUid],
                                  [password |-> password, at |-> now, by |-> "register"])
                      ELSE lastSet
        /\ UNCHANGED <<now, blacklist, held, loggedOut, resp, inflight>>

Login ==
    \E email \in Emails, password \in Passwords :
        LET r == login_user(email, password) IN
        /\ held' \in Keep(r.tokens)
        /\ UNCHANGED <<now, users, fb, nextUid, blacklist, lastSet, loggedOut, resp, inflight>>

GoogleAuth ==
    \E email \in Registrable, fault \in {"none", "create", "lookup", "store"} :
        LET r == google_auth(email, fault) IN
        /\ r.nextUid <= MaxUids + 1
        /\ users' = r.users
        /\ fb' = r.fb
        /\ nextUid' = r.nextUid
        /\ held' \in Keep(r.tokens)
        /\ UNCHANGED <<now, blacklist, lastSet, loggedOut, resp, inflight>>

Refresh ==
    \E tok \in held :
        LET r == refresh_token(tok) IN
        /\ held' \in Keep(r.tokens)
        /\ UNCHANGED <<now, users, fb, nextUid, blacklist, lastSet, loggedOut, resp, inflight>>

Me ==
    \E tok \in held, fault \in {"none", "lookup", "update"} :
        LET r == get_current_user_info(tok, fault) IN
        /\ users' = r.users
        /\ blacklist' = r.blacklist
        /\ UNCHANGED <<now, fb, nextUid, held, lastSet, loggedOut, resp, inflight>>

\* POST /logout: the bearer string is blacklisted as it is, unverified
Logout ==
    \E tok \in held :
        /\ Cardinality(add_token(blacklist, tok)) <= MaxRevoked
        /\ blacklist' = add_token(blacklist, tok)
        /\ loggedOut' = loggedOut \cup {tok}
        /\ UNCHANGED <<now, users, fb, nextUid, held, lastSet, resp, inflight>>

DeleteAccount ==
    \E tok \in held, fault \in {"none", "store"} :
        LET r == delete_account(tok, fault) IN
        /\ users' = r.users
        /\ fb' = r.fb
        /\ lastSet' = [u \in DOMAIN lastSet \cap DOMAIN r.users |-> lastSet[u]]
        /\ UNCHANGED <<now, nextUid, blacklist, held, loggedOut, resp, inflight>>

ForgotPassword ==
    \E email \in Emails, mailOk \in BOOLEAN, lookupOk \in BOOLEAN :
        LET r == forgot_password(email, mailOk, lookupOk) IN
        /\ users' = r.users
        /\ fb' = r.fb
        /\ held' \in Keep(r.sent)
        /\ UNCHANGED <<now, nextUid, blacklist, lastSet, loggedOut, resp, inflight>>

ResetPassword ==
    \E tok \in held, new_password \in Passwords, fault \in {"none", "auth", "store"} :
        LET r == reset_password(tok, new_password, fault) IN
        /\ users' = r.users
        /\ fb' = r.fb
        /\ lastSet' = IF r.status = 200
                      THEN DocSet(lastSet, r.uid, [password |-> new_password,
                                                   at |-> now, by |-> "reset"])
                      ELSE lastSet
        /\ UNCHANGED <<now, nextUid, blacklist, held, loggedOut, resp, inflight>>

Next ==
    \/ Register
    \/ Login
    \/ GoogleAuth
    \/ Refresh
    \/ Me
    \/ Logout
    \/ DeleteAccount
    \/ ForgotPassword
    \/ ResetPassword
    \/ Forget
    \/ Tick

Spec == Init /\ [][Next]_vars

\* ------------------------------------- sign-in with Google only
\* the same handlers without POST /login and POST /logout: every access or
\* refresh token a client holds goes back to a Google sign-in
FederatedNext ==
    \/ Register
    \/ GoogleAuth
    \/ Refresh
    \/ Me
    \/ DeleteAccount
    \/ ForgotPassword
    \/ ResetPassword
    \/ Forget
    \/ Tick

SpecFederated == Init /\ [][FederatedNext]_vars

\* ------------------------- the session check among several accounts
\* POST /register, for any email
SessionRegister ==
    \E email \in Emails, fault \in {"none", "store"} :
        LET r == register_user(email, "pw1", fault) IN
        /\ r.nextUid <= MaxUids + 1
        /\ users' = r.users
        /\ fb' = r.fb
        /\ nextUid' = r.nextUid
        /\ lastSet' = IF r.status = 201
                      THEN DocSet(lastSet, UidSeq[nextUid],
                                  [password |-> "pw1", at |-> now, by |-> "register"])
                      ELSE lastSet
        /\ UNCHANGED <<now, blacklist, held, loggedOut, resp, inflight>>

\* POST /google, for any email
SessionGoogleAuth ==
    \E email \in Emails :
        LET r == google_auth(email, "none") IN
        /\ r.nextUid <= MaxUids + 1
        /\ users' = r.users
        /\ fb' = r.fb
        /\ nextUid' = r.nextUid
        /\ held' \in Keep(r.tokens)
        /\ UNCHANGED <<now, blacklist, lastSet, loggedOut, resp, inflight>>

\* the owner of an identity follows the verification link register_user
\* mailed: Firebase Auth marks the identity verified
FollowVerificationLink ==
    \E uid \in DOMAIN fb :
        /\ ~fb[uid].email_verified
        /\ fb' = [fb EXCEPT ![uid].email_verified = TRUE]
        /\ UNCHANGED <<now, users, nextUid, blacklist, held, lastSet, loggedOut, resp, inflight>>

SessionNext ==
    \/ SessionRegister
    \/ SessionGoogleAuth
    \/ FollowVerificationLink
    \/ Login
    \/ Me
    \/ Logout
    \/ Forget
    \/ Tick

SpecSession == Init /\ [][SessionNext]_vars

\* ------------------------- concurrent logout and session check
\* the bearer strings the concurrent requests carry
ConcTokens ==
    {create_access_token([sub |-> u, email |-> "a@x"], Epoch) : u \in Uids}

\* a request as it arrives
NewRequest(op, token) ==
    [op |-> op, token |-> token, pc |-> "start",
     after |-> token \in loggedOut, saw |-> FALSE, kind |-> ""]

\* POST /logout arrives
StartLogout ==
    \E token \in ConcTokens :
        /\ Len(inflight) < MaxRequests
        /\ inflight' = Append(inflight, NewRequest("logout", token))
        /\ UNCHANGED <<now, users, fb, nextUid, blacklist, held, lastSet, loggedOut, resp>>

\* logout: TokenBlacklist.add_token(token), one set.add on the shared set
LogoutAdd ==
    \E i \in DOMAIN inflight :
        /\ inflight[i].op = "logout" /\ inflight[i].pc = "start"
        /\ blacklist' = add_token(blacklist, inflight[i].token)
        /\ inflight' = [inflight EXCEPT ![i].pc = "added"]
        /\ UNCHANGED <<now, users, fb, nextUid, held, lastSet, loggedOut, resp>>

\* logout: the response is returned; the logout has completed
LogoutReturn ==
    \E i \in DOMAIN inflight :
        /\ inflight[i].op = "logout" /\ inflight[i].pc = "added"
        /\ inflight' = [inflight EXCEPT ![i].pc = "done", ![i].kind = "ok"]
        /\ loggedOut' = loggedOut \cup {inflight[i].token}
        /\ UNCHANGED <<now, users, fb, nextUid, blacklist, held, lastSet, resp>>

\* a request that Depends(get_current_user) arrives; `after` remembers
\* whether a logout of its token had completed by then
StartCheck ==
    \E token \in ConcTokens :
        /\ Len(inflight) < MaxRequests
        /\ inflight' = Append(inflight, NewRequest("check", token))
        /\ UNCHANGED <<now, users, fb, nextUid, blacklist, held, lastSet, loggedOut, resp>>

\* get_current_user: TokenBlacklist.is_blacklisted(token), one membership test
CheckBlacklist ==
    \E i \in DOMAIN inflight :
        /\ inflight[i].op = "check" /\ inflight[i].pc = "start"
        /\ inflight' = [inflight EXCEPT
                           ![i].pc = "read",
                           ![i].saw = is_blacklisted(blacklist, inflight[i].token)]
        /\ UNCHANGED <<now, users, fb, nextUid, blacklist, held, lastSet, loggedOut, resp>>

\* get_current_user: raise Revoked, or verify_token and return
CheckReturn ==
    \E i \in DOMAIN inflight :
        /\ inflight[i].op = "check" /\ inflight[i].pc = "read"
        /\ inflight' = [inflight EXCEPT
                           ![i].pc = "done",
                           ![i].kind = IF inflight[i].saw THEN "Revoked"
                                       ELSE IF verify_token(inflight[i].token, "access", now).ok
                                       THEN "ok"
                                       ELSE "InvalidToken"]
        /\ UNCHANGED <<now, users, fb, nextUid, blacklist, held, lastSet, loggedOut, resp>>

ConcurrentNext ==
    \/ StartLogout
    \/ LogoutAdd
    \/ LogoutReturn
    \/ StartCheck
    \/ CheckBlacklist
    \/ CheckReturn

SpecConcurrent == Init /\ [][ConcurrentNext]_vars

\* ------------- concurrent register_user and google_auth calls
\* a create_user that accepts an email that has an identity already
create_user_allows_duplicate(email, password, email_verified) ==
    LET uid == UidSeq[nextUid] IN
    [ok |-> TRUE, uid |-> uid, nextUid |-> nextUid + 1,
     fb |-> DocSet(fb, uid, [email |-> email, password |-> password,
                             email_verified |-> email_verified])]

\* FirebaseClient.create_user(email, password, ...): auth.create_user, which
\* raises when the email has an identity already
create_user(email, password, email_verified) ==
    IF DocsByEmail(fb, email) # {}
    THEN [ok |-> FALSE, uid |-> None, nextUid |-> nextUid, fb |-> fb]
    ELSE LET uid == UidSeq[nextUid] IN
         [ok |-> TRUE, uid |-> uid, nextUid |-> nextUid + 1,
          fb |-> DocSet(fb, uid, [email |-> email, password |-> password,
                                  email_verified |-> email_verified])]

\* a register_user or google_auth call as it arrives
NewCall(op, email, password) ==
    [op |-> op, email |-> email, password |-> password, pc |-> "check",
     uid |-> None, via |-> "", kind |-> ""]

\* POST /register or POST /google arrives
StartCall ==
    \E op \in {"register", "google"}, email \in Emails :
        /\ Len(inflight) < MaxRequests
        /\ inflight' = Append(inflight,
                              NewCall(op, email, IF op = "register" THEN "pw1" ELSE None))
        /\ UNCHANGED <<now, users, fb, nextUid, blacklist, held, lastSet, loggedOut, resp>>

\* both: the query of the users collection by email. register_user raises
\* 400 when a document is found; google_auth logs that user in
CallCheck ==
    \E i \in DOMAIN inflight :
        LET c == inflight[i]
            docs == DocsByEmail(users, c.email) IN
        /\ c.pc = "check"
        /\ inflight' = [inflight EXCEPT ![i] =
              IF docs = {}
              THEN [c EXCEPT !.pc = "create"]
              ELSE IF c.op = "register"
              THEN [c EXCEPT !.pc = "done", !.kind = "EmailRegistered"]
              ELSE [c EXCEPT !.pc = "done", !.kind = "ok", !.via = "existing",
                             !.uid = CHOOSE u \in docs : TRUE]]
        /\ UNCHANGED <<now, users, fb, nextUid, blacklist, held, lastSet, loggedOut, resp>>

\* both: firebase_client.create_user. When it raises, register_user answers
\* 500 and google_auth goes on to get_user_by_email
CallCreate ==
    \E i \in DOMAIN inflight :
        LET c == inflight[i]
            r == create_user(c.email, c.password, c.op = "google") IN
        /\ c.pc = "create"
        /\ r.nextUid <= MaxUids + 1
        /\ fb' = r.fb
        /\ nextUid' = r.nextUid
        /\ inflight' = [inflight EXCEPT ![i] =
              IF r.ok
              THEN [c EXCEPT !.pc = "store", !.uid = r.uid, !.via = "created"]
              ELSE IF c.op = "register"
              THEN [c EXCEPT !.pc = "done", !.kind = "RegistrationFailed"]
              ELSE [c EXCEPT !.pc = "lookup"]]
        /\ UNCHANGED <<now, users, blacklist, held, lastSet, loggedOut, resp>>

\* google_auth: get_user_by_email after create_user raised; when it raises
\* too, the creation error is raised again
CallLookup ==
    \E i \in DOMAIN inflight :
        LET c == inflight[i]
            up == DocsByEmail(fb, c.email) IN
        /\ c.pc = "lookup"
        /\ inflight' = [inflight EXCEPT ![i] =
              IF up = {}
              THEN [c EXCEPT !.pc = "done", !.kind = "IdentityCreationFailed"]
              ELSE [c EXCEPT !.pc = "store", !.via = "lookup",
                             !.uid = CHOOSE u \in up : TRUE]]
        /\ UNCHANGED <<now, users, fb, nextUid, blacklist, held, lastSet, loggedOut, resp>>

\* both: users_ref.document(uid).set(user_doc_data); stored = FALSE: the
\* write raises
CallStore ==
    \E i \in DOMAIN inflight, stored \in BOOLEAN :
        LET c == inflight[i] IN
        /\ c.pc = "store"
        /\ users' = IF ~stored THEN users
                    ELSE IF c.op = "register"
                    THEN DocSet(users, c.uid,
                                [email |-> c.email, email_verified |-> FALSE,
                                 auth_provider |-> "email",
                                 hashed_password |-> hash_password(c.password),
                                 password_changed_at |-> now])
                    ELSE DocSet(users, c.uid, google_user_doc_data(c.email))
        /\ inflight' = [inflight EXCEPT ![i] =
              [c EXCEPT !.pc = "done",
                        !.kind = IF stored
                                 THEN (IF c.op = "register" THEN "Registered" ELSE "ok")
                                 ELSE (IF c.op = "register" THEN "RegistrationFailed"
                                       ELSE "GoogleAuthFailed")]]
        /\ UNCHANGED <<now, fb, nextUid, blacklist, held, lastSet, loggedOut, resp>>

RaceNext ==
    \/ StartCall
    \/ CallCheck
    \/ CallCreate
    \/ CallLookup
    \/ CallStore

SpecRace == Init /\ [][RaceNext]_vars

\* ------------------------------------------- the codec on its own
\* the lifetime of a kind, in ticks
Ttl(kind) ==
    CASE kind = "access" -> AccessTtl * TicksPerSecond
      [] kind = "refresh" -> RefreshTtl * TicksPerSecond
      [] OTHER -> ResetTtl * TicksPerSecond

\* a caller issues a token of some kind for some subject, and holds it;
\* resp remembers what was asked for
CodecIssue ==
    \E kind \in Kinds, sub \in Uids \cup Emails, email \in Emails :
        LET tok == Issue(kind, sub, email, now) IN
        /\ held' = {tok}
        /\ resp' = [op |-> "issue", status |-> 200, kind |-> kind, token |-> tok,
                    sub |-> sub, email |-> email, issuedAt |-> now]
        /\ UNCHANGED <<now, users, fb, nextUid, blacklist, lastSet, loggedOut, inflight>>

\* the caller verifies the token it holds, expecting some kind
CodecVerify ==
    \E kind \in Kinds :
        /\ resp.op \in {"issue", "verify"}
        /\ LET r == Verify(resp.token, kind, now) IN
           resp' = [op |-> "verify", status |-> IF r.ok THEN 200 ELSE 401,
                    kind |-> resp.kind, token |-> resp.token,
                    sub |-> resp.sub, email |-> resp.email, issuedAt |-> resp.issuedAt,
                    expected |-> kind, err |-> r.err,
                    got_sub |-> r.sub, got_email |-> r.email]
        /\ UNCHANGED <<now, users, fb, nextUid, blacklist, held, lastSet, loggedOut, inflight>>

\* time passes; the last verification's result is of the past
CodecTick ==
    /\ now < CodecMaxTime
    /\ now' = now + 1
    /\ resp' = IF resp.op = "verify"
               THEN [op |-> "issue", status |-> 200, kind |-> resp.kind,
                     token |-> resp.token, sub |-> resp.sub, email |-> resp.email,
                     issuedAt |-> resp.issuedAt]
               ELSE resp
    /\ UNCHANGED <<users, fb, nextUid, blacklist, held, lastSet, loggedOut, inflight>>

CodecNext == CodecIssue \/ CodecVerify \/ CodecTick

SpecCodec == Init /\ [][CodecNext]_vars

\* ------------------------- tokens the server did not issue as they are
\* a caller holds a bearer string of its own making: a token of some kind
\* with the signature broken, the subject claim left out, or both, or
\* neither
CodecCraft ==
    \E kind \in Kinds, signed \in BOOLEAN, has_sub \in BOOLEAN :
        LET base == Issue(kind, IF kind = "password_reset" THEN "a@x" ELSE "uid1",
                          "a@x", now)
            tok == [base EXCEPT !.sub = IF has_sub THEN base.sub ELSE None,
                                !.signed = signed] IN
        /\ held' = {tok}
        /\ resp' = [op |-> "issue", status |-> 200, kind |-> kind, token |-> tok,
                    sub |-> tok.sub, email |-> tok.email, issuedAt |-> now]
        /\ UNCHANGED <<now, users, fb, nextUid, blacklist, lastSet, loggedOut, inflight>>

\* the caller sends it to the verifiers and to POST /logout
CraftedNext ==
    \/ CodecCraft
    \/ CodecVerify
    \/ CodecTick
    \/ Logout

SpecCrafted == Init /\ [][CraftedNext]_vars

\* ================================================================ claims
\* ---- the codec (under SpecCodec)
\* the last call was a verification of a token that is still in its window
\* as the token itself states it: its exp second has not passed
Unexpired(token, t) == Sec(t) <= token.exp

\* C5: a correctly signed, unexpired token issued as one kind is rejected
\* with WrongType by the verifier that expects any other kind
C5_WrongTypeRejected ==
    (/\ resp.op = "verify"
     /\ resp.kind # resp.expected
     /\ resp.token.signed
     /\ Unexpired(resp.token, now))
    => (resp.status = 401 /\ resp.err = "WrongType")

\* an unexpired access token met the password-reset verifier (and the other
\* five pairs are reached the same way)
C5_Witness ==
    /\ resp.op = "verify"
    /\ resp.kind = "access"
    /\ resp.expected = "password_reset"
    /\ Unexpired(resp.token, now)
    /\ resp.err = "WrongType"

\* C6: round trip: a token just issued for a kind verifies, with that kind
\* expected and at any time from its issue to its issue plus the lifetime,
\* and the verifier returns the subject it was issued for (and the email,
\* for access and refresh)
C6_RoundTrip ==
    (/\ resp.op = "verify"
     /\ resp.expected = resp.kind
     /\ resp.issuedAt <= now
     /\ now <= resp.issuedAt + Ttl(resp.kind))
    => (/\ resp.status = 200
        /\ resp.got_sub = resp.sub
        /\ (resp.kind # "password_reset" => resp.got_email = resp.email))

\* a refresh token verified as refresh, later than its issue, returned its uid
C6_Witness ==
    /\ resp.op = "verify"
    /\ resp.kind = "refresh"
    /\ resp.expected = "refresh"
    /\ resp.issuedAt < now
    /\ resp.status = 200
    /\ resp.got_sub = resp.sub
    /\ resp.got_email = resp.email

\* C7 as stated: a token issued at t verifies at every now in [t, t + ttl]
\* and fails with Expired at every now > t + ttl
C7_ExpiredRightAfterTtl ==
    (resp.op = "verify" /\ resp.expected = resp.kind)
    => (/\ (resp.issuedAt <= now /\ now <= resp.issuedAt + Ttl(resp.kind))
           => resp.status = 200
        /\ now > resp.issuedAt + Ttl(resp.kind)
           => (resp.status = 401 /\ resp.err = "Expired"))

\* C7 as amended: it verifies at every now in [t, t + ttl], and up to the end
\* of the whole second in which t + ttl falls; it fails with Expired at every
\* now in a later whole second
C7_ExpiredFromNextSecond ==
    (resp.op = "verify" /\ resp.expected = resp.kind)
    => (/\ (resp.issuedAt <= now /\ now <= resp.issuedAt + Ttl(resp.kind))
           => resp.status = 200
        /\ Sec(now) <= Sec(resp.issuedAt + Ttl(resp.kind))
           => resp.status = 200
        /\ Sec(now) > Sec(resp.issuedAt + Ttl(resp.kind))
           => (resp.status = 401 /\ resp.err = "Expired"))

\* an access token verified one second after the end of its lifetime: Expired
C7_Witness ==
    /\ resp.op = "verify"
    /\ resp.kind = "access"
    /\ resp.expected = "access"
    /\ now = resp.issuedAt + Ttl("access") + TicksPerSecond
    /\ resp.err = "Expired"

\* ---- the session lifecycle (under Spec)
\* an access token the token-level checks pass: signed, of type access, its
\* exp second not passed, not revoked, and its subject's document exists
LiveAccess(tok) ==
    /\ tok.token_type = "access"
    /\ tok.signed
    /\ Unexpired(tok, now)
    /\ ~is_blacklisted(blacklist, tok)
    /\ tok.sub \in DOMAIN users

\* the account's password was last set by reset_password
WasReset(uid) == uid \in DOMAIN lastSet /\ lastSet[uid].by = "reset"

\* C1: after reset_password succeeded for a user at T, GET /me with an access
\* token of that user whose iat is earlier than T answers 401
\* SessionInvalidated
C1_OldTokenSessionInvalidated ==
    \A tok \in held :
        (/\ LiveAccess(tok)
         /\ WasReset(tok.sub)
         /\ FromTimestamp(tok.iat) < users[tok.sub].password_changed_at)
        => LET r == get_current_user_info(tok, "none") IN
           r.status = 401 /\ r.kind = "SessionInvalidated"

\* C2: an access token issued strictly after its subject's last password
\* change is accepted by GET /me while it is unexpired and unrevoked: both a
\* held token whose iat second began after the change, and the token login
\* returns at any instant after the change
C2_FreshTokenAccepted ==
    /\ \A tok \in held :
        (/\ LiveAccess(tok)
         /\ users[tok.sub].password_changed_at # NoTime
         /\ FromTimestamp(tok.iat) > users[tok.sub].password_changed_at)
        => get_current_user_info(tok, "none").status = 200
    /\ \A email \in Emails, password \in Passwords :
        \A tok \in login_user(email, password).tokens :
            (/\ LiveAccess(tok)
             /\ users[tok.sub].password_changed_at < now)
            => get_current_user_info(tok, "none").status = 200

\* C3: after reset_password succeeded for a user, a refresh token issued
\* before the change does not yield, at POST /refresh, an access token that
\* the session check (get_current_user) accepts
C3_OldRefreshTokenUseless ==
    \A tok \in held :
        (/\ tok.token_type = "refresh"
         /\ tok.sub \in DOMAIN users
         /\ WasReset(tok.sub)
         /\ FromTimestamp(tok.iat + 1) <= users[tok.sub].password_changed_at)
        => \A new \in refresh_token(tok).tokens :
               new.token_type = "access" => get_current_user(new).status # 200

\* C4: a token string POST /logout was called with is rejected 401 Revoked by
\* get_current_user in every later state, whatever was requested in between
C4_LoggedOutStaysRevoked ==
    \A tok \in loggedOut :
        LET r == get_current_user(tok) IN r.status = 401 /\ r.kind = "Revoked"

\* a logged-out access token that would still verify, in a later second than
\* its issue, and after its subject's password was reset in between
C4_Witness ==
    \E tok \in loggedOut :
        /\ verify_token(tok, "access", now).ok
        /\ Sec(now) > tok.iat
        /\ tok.sub \in DOMAIN users
        /\ WasReset(tok.sub)

\* C8: for an existing user, GET /me with an access token that is unexpired,
\* not revoked and not older than password_changed_at answers 200 with the
\* user's full document and uid
C8_AcceptedPath ==
    \A tok \in held :
        (/\ LiveAccess(tok)
         /\ ~(/\ users[tok.sub].password_changed_at # NoTime
              /\ users[tok.sub].password_changed_at > FromTimestamp(tok.iat)))
        => LET r == get_current_user_info(tok, "none") IN
           /\ r.status = 200
           /\ r.kind = "Accepted"
           /\ r.user = [uid |-> tok.sub, doc |-> SyncedDoc(tok.sub, users[tok.sub])]

\* what the caller of POST /forgot-password, and of request_password_reset
\* beneath it, gets back
ForgotOutcome(email, mailOk) ==
    LET r == forgot_password(email, mailOk, TRUE) IN
    [status |-> r.status, kind |-> r.kind, success |-> r.success, ret |-> r.ret]

C10_ResetTakesEffect ==
    \A uid \in DOMAIN lastSet :
        (uid \in DOMAIN users /\ lastSet[uid].by = "reset")
        => /\ users[uid].hashed_password = hash_password(lastSet[uid].password)
           /\ users[uid].password_changed_at = lastSet[uid].at
           /\ \A password \in Passwords :
                login_user(users[uid].email, password).status =
                    IF password = lastSet[uid].password THEN 200 ELSE 401

\* some time after a reset to pw2 of an account registered with pw1
C10_Witness ==
    \E uid \in DOMAIN lastSet :
        /\ uid \in DOMAIN users
        /\ lastSet[uid].by = "reset"
        /\ lastSet[uid].password = "pw2"
        /\ uid \in DOMAIN fb /\ fb[uid].password = "pw2"
        /\ now > lastSet[uid].at
        /\ login_user(users[uid].email, "pw1").status = 401
        /\ login_user(users[uid].email, "pw2").status = 200

\* ---- password reset and federated accounts (under Spec)
\* C11: reset_password with a valid password_reset token whose email belongs
\* to a Google-only account answers 400 ProviderMismatch, whatever the new
\* password and whichever external call would fail, and leaves the user
\* documents (no hashed_password, password_changed_at as it was) and the
\* Firebase Auth identities as they were
C11_FederatedResetRejected ==
    \A tok \in held, new_password \in Passwords, fault \in {"none", "auth", "store"} :
        LET v == verify_password_reset_token(tok, now) IN
        (/\ v.ok
         /\ \E uid \in DocsByEmail(users, v.email) : users[uid].auth_provider = "google")
        => LET r == reset_password(tok, new_password, fault) IN
           /\ r.status = 400
           /\ r.kind = "ProviderMismatch"
           /\ r.users = users
           /\ r.fb = fb
           /\ \A uid \in DocsByEmail(users, v.email) :
                r.users[uid].hashed_password = NoHash

\* a reset token, still valid, was mailed for the address of an account that
\* Google sign-in created
C11_Witness ==
    \E tok \in held :
        /\ verify_password_reset_token(tok, now).ok
        /\ \E uid \in DocsByEmail(users, tok.sub) :
             /\ users[uid].auth_provider = "google"
             /\ uid \in DOMAIN fb

\* ---- sign-in with Google (under SpecFederated)
\* C12: google_auth for an email that already has a user document, one
\* created by register_user included, answers 200 with one access and one
\* refresh token whose subject is that document's id, creates no document
\* and no identity, and leaves auth_provider and hashed_password of every
\* document as they were
C12_MergeByEmail ==
    \A email \in Emails :
        DocsByEmail(users, email) # {}
        => LET r == google_auth(email, "none") IN
           /\ r.status = 200
           /\ \A tok \in r.tokens :
                tok.sub \in DocsByEmail(users, email) /\ tok.email = email
           /\ {tok.token_type : tok \in r.tokens} = {"access", "refresh"}
           /\ DOMAIN r.users = DOMAIN users
           /\ DOMAIN r.fb = DOMAIN fb
           /\ r.nextUid = nextUid
           /\ \A uid \in DOMAIN users :
                /\ r.users[uid].auth_provider = users[uid].auth_provider
                /\ r.users[uid].hashed_password = users[uid].hashed_password

\* a client holds an access token, obtained without POST /login, whose
\* subject is an account that register_user created and that still has its
\* password
C12_Witness ==
    \E tok \in held :
        /\ tok.token_type = "access"
        /\ tok.sub \in DOMAIN users
        /\ users[tok.sub].auth_provider = "email"
        /\ users[tok.sub].hashed_password # NoHash
        /\ tok.sub \in DOMAIN lastSet

\* ---- logout and the refresh token (under Spec)
\* the access and the refresh token of one login: same subject, same email,
\* same issue second
Paired(access, refresh) ==
    /\ access.token_type = "access"
    /\ refresh.token_type = "refresh"
    /\ access.sub = refresh.sub
    /\ access.email = refresh.email
    /\ access.iat = refresh.iat

\* C13: after POST /logout revoked the access token of a login, and even if
\* the refresh token itself was sent to POST /logout, the refresh token
\* still passes POST /refresh while it is unexpired, and POST /refresh
\* returns a new access and refresh token for the same subject
C13_RefreshSurvivesLogout ==
    \A refresh \in held :
        (/\ refresh.token_type = "refresh"
         /\ refresh.signed
         /\ Unexpired(refresh, now)
         /\ \/ \E access \in loggedOut : Paired(access, refresh)
            \/ is_blacklisted(blacklist, refresh))
        => LET r == refresh_token(refresh) IN
           /\ r.status = 200
           /\ {tok.token_type : tok \in r.tokens} = {"access", "refresh"}
           /\ \A tok \in r.tokens :
                /\ tok.sub = refresh.sub
                /\ tok.email = refresh.email
                /\ tok.iat = Sec(now)

\* the access token of a login was logged out and is rejected as Revoked,
\* the client still holds the refresh token of that login, a second later
C13_Witness ==
    \E access \in loggedOut, refresh \in held :
        /\ Paired(access, refresh)
        /\ get_current_user(access).kind = "Revoked"
        /\ Unexpired(refresh, now)
        /\ Sec(now) > refresh.iat
        /\ refresh_token(refresh).status = 200

\* ---- the revocation store (under Spec)
\* C14: revoking a token a second time leaves the revocation store as the
\* first revoke left it, and is_blacklisted answers the same for every
\* token; in particular revoking a token that is in the store changes nothing
C14_RevokeIdempotent ==
    \A tok \in held \cup blacklist :
        LET once == add_token(blacklist, tok)
            twice == add_token(once, tok) IN
        /\ twice = once
        /\ \A other \in held \cup blacklist :
             is_blacklisted(twice, other) = is_blacklisted(once, other)
        /\ is_blacklisted(once, tok)
        /\ is_blacklisted(blacklist, tok) => once = blacklist

\* a client holds a token that was logged out and can send it to POST /logout
\* again, next to a token that was not
C14_Witness ==
    \E tok \in held, other \in held :
        /\ is_blacklisted(blacklist, tok)
        /\ tok \in loggedOut
        /\ ~is_blacklisted(blacklist, other)

\* ---- the user documents (under Spec)
\* C15: in every reachable state a user document has a hashed_password if and
\* only if its auth_provider is "email"
C15_HashIffLocal ==
    \A uid \in DOMAIN users :
        (users[uid].hashed_password # NoHash) <=> (users[uid].auth_provider = "email")

\* a Google document created under the uid of an identity that register_user
\* left behind with its password, for which a reset token is still valid
C15_Witness ==
    \E uid \in DOMAIN users :
        /\ users[uid].auth_provider = "google"
        /\ uid \in DOMAIN fb
        /\ fb[uid].password # None
        /\ \E tok \in held :
             /\ verify_password_reset_token(tok, now).ok
             /\ tok.sub = users[uid].email

\* ---- outcomes of the session check (under Spec)
\* C16: whatever token GET /me is sent, and whether or not the sync fails,
\* a request that is not accepted is answered 401, never 404 or 500
C16_FailuresAreUnauthorized ==
    \A tok \in held, fault \in {"none", "lookup", "update"} :
        LET r == get_current_user_info(tok, fault) IN
        r.status # 200 => r.status = 401

\* C17: for an access token that is valid, not revoked, whose user document
\* exists and whose iat is not earlier than password_changed_at, GET /me
\* answers 200 Accepted with the document as it was read, also when the
\* Firebase Auth lookup or the email_verified update of the sync fails, and a
\* failed sync writes nothing
C17_SyncFailureStillAccepted ==
    \A tok \in held, fault \in {"lookup", "update"} :
        (/\ LiveAccess(tok)
         /\ ~(/\ users[tok.sub].password_changed_at # NoTime
              /\ users[tok.sub].password_changed_at > FromTimestamp(tok.iat)))
        => LET r == get_current_user_info(tok, fault) IN
           /\ r.status = 200
           /\ r.kind = "Accepted"
           /\ r.user = [uid |-> tok.sub, doc |-> users[tok.sub]]
           /\ r.users = users

\* ---- the revocation store under concurrent requests (under SpecConcurrent)
\* C18: under every interleaving of the steps of concurrent POST /logout and
\* get_current_user requests, the token of every logout that has executed
\* add_token is in the blacklist (no revoke is lost), and every session check
\* that arrived after a logout of its token had completed reads it as
\* blacklisted and answers Revoked
C18_ConcurrentRevocationSafe ==
    \A i \in DOMAIN inflight :
        /\ (inflight[i].op = "logout" /\ inflight[i].pc \in {"added", "done"})
           => inflight[i].token \in blacklist
        /\ (inflight[i].op = "check" /\ inflight[i].after /\ inflight[i].pc \in {"read", "done"})
           => inflight[i].saw
        /\ (inflight[i].op = "check" /\ inflight[i].after /\ inflight[i].pc = "done")
           => inflight[i].kind = "Revoked"

\* a session check that arrived after the logout of its token completed has
\* answered Revoked, while a logout of another token was between its
\* add_token and its response
C18_Witness ==
    \E i \in DOMAIN inflight, j \in DOMAIN inflight, k \in DOMAIN inflight :
        /\ inflight[i].op = "logout" /\ inflight[i].pc = "done"
        /\ inflight[j].op = "check" /\ inflight[j].pc = "done"
        /\ inflight[j].token = inflight[i].token
        /\ inflight[j].after
        /\ inflight[j].kind = "Revoked"
        /\ inflight[k].op = "logout" /\ inflight[k].pc = "added"
        /\ inflight[k].token # inflight[i].token
        /\ k < j

\* ---- a token without a user document (under Spec)
\* C19: GET /me with an access token that is valid and not revoked, but whose
\* subject has no user document, is rejected as UserNotFound, is never
\* accepted, and writes nothing
C19_AbsentUserRejected ==
    \A tok \in held, fault \in {"none", "lookup", "update"} :
        (/\ get_current_user(tok).status = 200
         /\ tok.sub \notin DOMAIN users)
        => LET r == get_current_user_info(tok, fault) IN
           /\ r.kind = "UserNotFound"
           /\ r.status # 200
           /\ r.user = NoUser
           /\ r.users = users

\* a client still holds the valid access token of an account that
\* delete_user_account removed from both stores
C19_Witness ==
    \E tok \in held :
        /\ get_current_user(tok).status = 200
        /\ tok.sub \in Uids
        /\ tok.sub \notin DOMAIN users
        /\ tok.sub \notin DOMAIN fb

\* ---- replay of reset tokens (under Spec)
\* C20: a valid password_reset token for a local account whose password was
\* already reset at or after the token's issue second (with this token or
\* with another one) is accepted by reset_password again, for any new
\* password, as long as the external calls do not fail: the answer is 200,
\* the stored hash and the Firebase Auth password become the supplied
\* password's and password_changed_at becomes the time of this call, not
\* earlier than it was
C20_ResetTokenReplay ==
    \A tok \in held, new_password \in Passwords :
        LET v == verify_password_reset_token(tok, now) IN
        (/\ v.ok
         /\ \E uid \in DocsByEmail(users, v.email) :
              /\ WasReset(uid)
              /\ uid \in DOMAIN fb
              /\ FromTimestamp(tok.iat) <= lastSet[uid].at)
        => LET r == reset_password(tok, new_password, "none") IN
           /\ r.status = 200
           /\ r.uid \in DocsByEmail(users, v.email)
           /\ r.users[r.uid].hashed_password = hash_password(new_password)
           /\ r.fb[r.uid].password = new_password
           /\ r.users[r.uid].password_changed_at = now
           /\ r.users[r.uid].password_changed_at >= users[r.uid].password_changed_at

\* a reset token issued before a successful reset is still valid a tick or
\* more after that reset, and the account now has another password than pw1
C20_Witness ==
    \E tok \in held :
        /\ verify_password_reset_token(tok, now).ok
        /\ \E uid \in DocsByEmail(users, tok.sub) :
             /\ WasReset(uid)
             /\ uid \in DOMAIN fb
             /\ FromTimestamp(tok.iat) <= lastSet[uid].at
             /\ lastSet[uid].at < now
             /\ lastSet[uid].password = "pw2"
             /\ reset_password(tok, "pw1", "none").status = 200

\* ---- Google sign-in and the upstream identity (under Spec)
\* C21: google_auth for an email that has no user document but has a
\* Firebase Auth identity answers 200, creates the user document under that
\* identity's uid with auth_provider "google" and email_verified true,
\* creates no identity, and issues an access and a refresh token whose
\* subject is that uid
C21_Reconciliation ==
    \A email \in Emails, fault \in {"none", "create"} :
        (DocsByEmail(users, email) = {} /\ DocsByEmail(fb, email) # {})
        => LET r == google_auth(email, fault) IN
           /\ r.status = 200
           /\ r.fb = fb
           /\ r.nextUid = nextUid
           /\ \E uid \in DocsByEmail(fb, email) :
                /\ r.users = DocSet(users, uid, r.users[uid])
                /\ r.users[uid].email = email
                /\ r.users[uid].auth_provider = "google"
                /\ r.users[uid].email_verified
                /\ \A tok \in r.tokens : tok.sub = uid /\ tok.email = email
           /\ {tok.token_type : tok \in r.tokens} = {"access", "refresh"}

\* a client holds an access token whose subject is a Google document that
\* sits under the uid of an identity created with a password by a
\* registration whose document write failed
C21_Witness ==
    \E tok \in held :
        /\ tok.token_type = "access"
        /\ tok.sub \in DOMAIN users
        /\ tok.sub \in DOMAIN fb
        /\ users[tok.sub].auth_provider = "google"
        /\ fb[tok.sub].password # None
        /\ fb[tok.sub].email = users[tok.sub].email

\* ---- the verification-status sync (under Spec)
\* C22: for an access token that passes every check of GET /me and whose
\* subject has a Firebase Auth identity, the answer is 200, and email_verified
\* of the stored document and of the returned user data both equal the
\* identity's value; when the stored value already equals it, nothing is
\* written
C22_VerificationSynced ==
    \A tok \in held :
        (/\ LiveAccess(tok)
         /\ tok.sub \in DOMAIN fb
         /\ ~(/\ users[tok.sub].password_changed_at # NoTime
              /\ users[tok.sub].password_changed_at > FromTimestamp(tok.iat)))
        => LET r == get_current_user_info(tok, "none") IN
           /\ r.status = 200
           /\ r.users[tok.sub].email_verified = fb[tok.sub].email_verified
           /\ r.user.doc.email_verified = fb[tok.sub].email_verified
           /\ (users[tok.sub].email_verified = fb[tok.sub].email_verified
               => r.users = users)

\* ---- what verification returns (under SpecCodec)
\* C23: the TokenData a successful verify_token returns carries the token's
\* iat as its issued-at, next to uid, email and token_type
C23_SessionCarriesIssuedAt ==
    \A tok \in held, kind \in {"access", "refresh"} :
        LET v == verify_token(tok, kind, now) IN
        v.ok => /\ v.data.uid = tok.sub
                /\ v.data.email = tok.email
                /\ v.data.token_type = tok.token_type
                /\ HasAttr(v.data, "iat")
                /\ v.data.iat = tok.iat

\* ---- order of the checks (under SpecCrafted)
\* C24: a blacklisted token that verify_token would reject (expired, not an
\* access token, signature broken, subject missing) is rejected by
\* get_current_user as Revoked, with no verification error, never as
\* InvalidToken
C24_RevokedBeforeVerification ==
    \A tok \in blacklist :
        ~verify_token(tok, "access", now).ok
        => get_current_user(tok) =
               [status |-> 401, kind |-> "Revoked", err |-> "", data |-> NoData]

\* a token with a broken signature that has also expired was sent to POST
\* /logout
C24_Witness ==
    \E tok \in blacklist :
        /\ tok \in loggedOut
        /\ ~tok.signed
        /\ ~Unexpired(tok, now)
        /\ verify_token(tok, "access", now).err = "BadSignature"
        /\ get_current_user(tok).kind = "Revoked"

\* C25: a token whose signature does not verify is rejected as BadSignature
\* by every verifier, whether or not it has expired, whatever its token_type
\* and whether or not it has a subject
C25_SignatureFirst ==
    (resp.op = "verify" /\ ~resp.token.signed)
    => (resp.status = 401 /\ resp.err = "BadSignature")

\* a token with a broken signature that is also expired, of another type than
\* expected and without subject was rejected as BadSignature
C25_Witness ==
    /\ resp.op = "verify"
    /\ ~resp.token.signed
    /\ ~Unexpired(resp.token, now)
    /\ resp.token.token_type # resp.expected
    /\ resp.token.sub = None
    /\ resp.err = "BadSignature"

\* C26: a correctly signed, unexpired token without subject claim is rejected
\* as MalformedClaims by verify_token and by verify_password_reset_token,
\* also when its token_type is not the expected one
C26_MissingSubjectMalformed ==
    (/\ resp.op = "verify"
     /\ resp.token.signed
     /\ Unexpired(resp.token, now)
     /\ resp.token.sub = None)
    => (resp.status = 401 /\ resp.err = "MalformedClaims")

\* a signed, unexpired access token without subject met the password-reset
\* verifier and was rejected as MalformedClaims
C26_Witness ==
    /\ resp.op = "verify"
    /\ resp.token.signed
    /\ Unexpired(resp.token, now)
    /\ resp.token.sub = None
    /\ resp.token.token_type = "access"
    /\ resp.expected = "password_reset"
    /\ resp.err = "MalformedClaims"

\* ---- password_changed_at (under Spec)
\* C27: every user document has password_changed_at set, whichever operation
\* created it, and for a document whose password was set by register_user or
\* reset_password it is the time of the last such call
C27_ChangedAtAlwaysSet ==
    \A uid \in DOMAIN users :
        /\ users[uid].password_changed_at # NoTime
        /\ uid \in DOMAIN lastSet
           => users[uid].password_changed_at = lastSet[uid].at

\* ---- Google sign-in when no identity can be had (under Spec)
\* C28: google_auth for an email without user document, when create_user
\* fails and the lookup by email finds or returns nothing, answers 401
\* IdentityCreationFailed, issues no token and creates neither a user
\* document nor an identity
C28_CreationFailurePropagates ==
    \A email \in Emails, fault \in {"create", "lookup"} :
        (/\ DocsByEmail(users, email) = {}
         /\ (fault = "create") <=> (DocsByEmail(fb, email) = {}))
        => LET r == google_auth(email, fault) IN
           /\ r.status = 401
           /\ r.kind = "IdentityCreationFailed"
           /\ r.tokens = {}
           /\ r.users = users
           /\ r.fb = fb
           /\ r.nextUid = nextUid

\* after an account was created and deleted again the address has neither
\* document nor identity, and a sign-in whose create_user fails is refused
C28_Witness ==
    /\ nextUid > 1
    /\ DocsByEmail(users, "a@x") = {}
    /\ DocsByEmail(fb, "a@x") = {}
    /\ google_auth("a@x", "create").kind = "IdentityCreationFailed"
    /\ google_auth("a@x", "none").status = 200

C30_LoginOnlyOnMatch ==
    \A email \in Emails, password \in Passwords :
        LET r == login_user(email, password)
            matches == \E uid \in DocsByEmail(users, email) :
                          /\ users[uid].hashed_password # NoHash
                          /\ verify_password(password, users[uid].hashed_password)
        IN /\ (r.tokens # {}) <=> matches
           /\ matches => /\ r.status = 200
                         /\ {tok.token_type : tok \in r.tokens} = {"access", "refresh"}
                         /\ \A tok \in r.tokens : tok.sub \in DocsByEmail(users, email)
           /\ ~matches => /\ r.tokens = {}
                          /\ r.updated = {}
                          /\ r.status \in {400, 401}

\* a local account for a@x whose password is pw1 and which holds an access
\* token: pw1 logs in and updates its document, pw2 does not, and b@x has no
\* document
C30_Witness ==
    /\ \E uid \in DOMAIN users :
          /\ users[uid].email = "a@x"
          /\ users[uid].hashed_password = hash_password("pw1")
          /\ login_user("a@x", "pw1").updated = {uid}
          /\ \E tok \in held : tok.sub = uid /\ tok.token_type = "access"
    /\ login_user("a@x", "pw2").kind = "InvalidCredentials"
    /\ login_user("b@x", "pw1").kind = "InvalidCredentials"

\* ---- concurrent creation of an account (under SpecRace)
\* C31: whatever the interleaving of the calls' steps, an email has at most
\* one user document, and that document's id is the id of the upstream
\* identity of that email
C31_OneRecordPerEmail ==
    \A email \in Emails :
        /\ Cardinality(DocsByEmail(users, email)) <= 1
        /\ Cardinality(DocsByEmail(fb, email)) <= 1
        /\ DocsByEmail(users, email) \subseteq DocsByEmail(fb, email)

\* a register_user and a google_auth for a@x both found no document, and
\* both completed: the one created the identity, the other found it by
\* email, and one document is there
C31_Witness ==
    /\ \E i, j \in DOMAIN inflight :
          /\ inflight[i].op = "register" /\ inflight[i].kind = "Registered"
          /\ inflight[j].op = "google" /\ inflight[j].kind = "ok"
          /\ inflight[j].via = "lookup"
          /\ inflight[i].email = "a@x" /\ inflight[j].email = "a@x"
          /\ inflight[i].uid = inflight[j].uid
    /\ \A i \in DOMAIN inflight : inflight[i].kind \in {"Registered", "ok"}
    /\ Cardinality(DocsByEmail(users, "a@x")) = 1

\* ---- stale access tokens and account deletion (under Spec)
\* C32: an unexpired, unrevoked access token issued before its subject's last
\* password reset is rejected by DELETE /delete-account as it is by GET /me:
\* the answer is not 200 and the document and the identity stay
C32_StaleTokenCannotDelete ==
    \A tok \in held :
        (/\ LiveAccess(tok)
         /\ WasReset(tok.sub)
         /\ FromTimestamp(tok.iat + 1) <= users[tok.sub].password_changed_at)
        => /\ get_current_user_info(tok, "none").status # 200
           /\ LET r == delete_account(tok, "none") IN
              r.status # 200 /\ r.users = users /\ r.fb = fb

\* ---- reset_password across the two stores (under Spec)
\* C33: whatever reset_password answers, and whichever of its two writes
\* fails, it leaves either both stores as they were, or the upstream
\* password, the stored hash and password_changed_at all set to the new
\* values
C33_ResetAllOrNothing ==
    \A tok \in held, new_password \in Passwords, fault \in {"none", "auth", "store"} :
        LET r == reset_password(tok, new_password, fault) IN
        \/ r.users = users /\ r.fb = fb
        \/ /\ r.uid \in DOMAIN r.users \cap DOMAIN r.fb
           /\ r.fb[r.uid].password = new_password
           /\ r.users[r.uid].hashed_password = hash_password(new_password)
           /\ r.users[r.uid].password_changed_at = now

\* ---- tokens of a deleted account (under Spec)
\* C34: once delete_user_account removed an account, a token whose subject
\* is that account gets neither an Accepted session from GET /me nor a new
\* token pair from POST /refresh
C34_DeletedUserCannotRefresh ==
    \A tok \in held :
        (/\ tok.token_type \in {"access", "refresh"}
         /\ tok.sub \notin DOMAIN users
         /\ tok.sub \notin DOMAIN fb)
        => /\ get_current_user_info(tok, "none").status # 200
           /\ refresh_token(tok).status # 200
           /\ refresh_token(tok).tokens = {}

\* ---- reset tokens and re-registered emails (under Spec)
\* C35: a password_reset token issued before the account that now has its
\* email was registered (so issued for an earlier account of that email) is
\* rejected by reset_password, and changes nothing
C35_ResetTokenBoundToAccount ==
    \A tok \in held, new_password \in Passwords :
        (/\ tok.token_type = "password_reset"
         /\ \E uid \in DocsByEmail(users, tok.sub) :
               /\ uid \in DOMAIN lastSet
               /\ lastSet[uid].by = "register"
               /\ FromTimestamp(tok.iat + 1) <= lastSet[uid].at)
        => LET r == reset_password(tok, new_password, "none") IN
           r.status # 200 /\ r.users = users /\ r.fb = fb

\* ---- what the session check writes (under SpecSession)
\* the documents after a session check for subject sub: the same documents,
\* all but sub's unchanged, and in sub's nothing but email_verified changed
SessionFrame(before, after, sub) ==
    /\ DOMAIN after = DOMAIN before
    /\ \A u \in DOMAIN before :
          /\ u # sub => after[u] = before[u]
          /\ after[u] = [before[u] EXCEPT !.email_verified = after[u].email_verified]

\* C36: GET /me, whatever it answers and whichever call of the sync fails,
\* leaves the blacklist as it is and changes at most email_verified of the
\* token's subject; and so does get_current_active_user for every subject
\* and every issue time a TokenData could carry
C36_SessionCheckReadOnly ==
    /\ \A tok \in held, fault \in {"none", "lookup", "update"} :
          LET r == get_current_user_info(tok, fault) IN
          /\ r.blacklist = blacklist
          /\ SessionFrame(users, r.users, tok.sub)
    /\ \A uid \in Uids, iat \in 0..Sec(MaxTime), fault \in {"none", "lookup", "update"} :
          LET r == get_current_active_user(
                       [uid |-> uid, email |-> "a@x", token_type |-> "access",
                        iat |-> iat], fault) IN
          SessionFrame(users, r.users, uid)

\* two accounts; a client holds a live access token of a registered one
\* whose identity was verified since, GET /me with it has an outcome, and the
\* sync for that subject writes email_verified and nothing else
C36_Witness ==
    /\ Cardinality(DOMAIN users) = 2
    /\ \E tok \in held :
          /\ LiveAccess(tok)
          /\ tok.sub \in DOMAIN fb
          /\ users[tok.sub].hashed_password # NoHash
          /\ users[tok.sub].email_verified # fb[tok.sub].email_verified
          /\ get_current_user_info(tok, "none").status # 0
          /\ LET r == get_current_active_user(
                          [uid |-> tok.sub, email |-> tok.email,
                           token_type |-> "access", iat |-> tok.iat], "none") IN
             /\ r.status = 200
             /\ r.users # users
             /\ r.users[tok.sub].email_verified = fb[tok.sub].email_verified

====
